---- MODULE Spec2Model ----
(***************************************************************************)
(* Joint bilateral upsampling (src/app.py, joint_bilateral_upsampling) as  *)
(* a state machine: one action per stage of the function (resize, spatial  *)
(* kernel, padding, one compositing step per output pixel, return).        *)
(*                                                                         *)
(* Numbers.  A uint8 array holds integers 0..255 and its arithmetic wraps  *)
(* modulo 2^8, as numpy's does.  A float64 value is held in fixed point:   *)
(* the integer floor(x * ONE).  The two float64 values fixed point cannot  *)
(* hold, inf and nan, are carried by a tag (records [k, v]).  sigma_spatial *)
(* is held in tenths and sigma_range in hundredths (the steps of the two   *)
(* sliders of main).                                                       *)
(***************************************************************************)
EXTENDS Integers, Sequences, FiniteSets, TLC

\* ------------------------------------------------------------- bounds
\* Largest height and width of the coarse grid drawn as an input.
MaxCoarse == 2
\* Largest height and width of the guide grid drawn as an input.
MaxGuide == 2
\* Fixed-point resolution of a float64 value: x is held as floor(x * ONE).
ONE == 1000

\* ------------------------------------------------------------- inputs
\* dtypes of the two grids: main decodes both images to uint8; the function
\* itself takes any ndarray, float64 being numpy's default.
Dtypes == {"uint8", "float64"}
\* (sigma_spatial in tenths, sigma_range in hundredths): the positive pairs
\* 0.3, 0.7, 1.7 with 0.1 (the slider's default), 1.0; and the non-positive cases
\* sigma_spatial = -1.0, -0.1, 0 and sigma_range = 0.
SigmaPairs ==
    ({3, 7, 17} \X {10, 100}) \cup {<<-10, 10>>, <<-1, 10>>, <<0, 10>>, <<7, 0>>}
\* What a cast of nan to uint8 may store (undefined in C; fixed by the build).
NanCastOutcomes == {0, 255}
CoarsePatterns == {"ramp10"}
GuidePatterns == {"const200", "ramp", "edge"}

\* ------------------------------------------------------------- arrays
\* A 2-D ndarray: dtype, shape (h, w) and data[r][c], indices from 0.
Array(dtype, h, w, f(_, _)) ==
    [dtype |-> dtype, h |-> h, w |-> w,
     data |-> [r \in 0..(h - 1) |-> [c \in 0..(w - 1) |-> f(r, c)]]]

\* A local that has not been assigned yet.
None == [dtype |-> "none", h |-> 0, w |-> 0, data |-> <<>>]

\* The stored form of the sample value v (an integer 0..255) in an array of dtype.
Sample(dtype, v) == IF dtype = "uint8" THEN v ELSE v * ONE

PatternValue(p, r, c, w) ==
    CASE p = "ramp10"   -> (5 + 10 * (w * r + c)) % 256
      [] p = "const200" -> 200
      [] p = "ramp"     -> (16 * r + c) % 256
      [] p = "edge"     -> IF 2 * c < w THEN 0 ELSE 100

\* The grids main hands over (cv2.imdecode, IMREAD_GRAYSCALE), or a float64 caller's.
InputGrid(dtype, h, w, p) ==
    LET f(r, c) == Sample(dtype, PatternValue(p, r, c, w)) IN Array(dtype, h, w, f)

VARIABLES
    low_res_solution,   \* argument: the coarse grid
    high_res_image,     \* argument: the guide grid
    sigma_spatial,      \* argument, in tenths
    sigma_range,        \* argument, in hundredths
    nan_cast,           \* what this build stores when nan is cast to uint8
    pc,                 \* position in joint_bilateral_upsampling
    error,              \* the exception raised, "" when none
    upsampled,          \* local, line 30
    kernel_size,        \* local, line 34
    spatial_kernel,     \* local, lines 35-44
    pad_size,           \* local, line 48
    padded_guide,       \* local, line 51
    padded_input,       \* local, line 52
    result,             \* local, line 47; cells are float records [k, v]
    i, j,               \* loop variables of lines 54-55, -1 while unbound
    guide_window,       \* local, line 57
    input_window,       \* local, line 58
    range_diff,         \* local, line 61
    range_kernel,       \* local, line 62
    combined_kernel,    \* local, lines 65-66
    pixel_sum,          \* the right-hand side of line 69 before it is stored
    writes,             \* history: how many times line 69 stored into each cell
    returned            \* the value handed to the caller, None before the return

vars == <<low_res_solution, high_res_image, sigma_spatial, sigma_range, nan_cast,
          pc, error, upsampled, kernel_size, spatial_kernel, pad_size,
          padded_guide, padded_input, result, i, j, guide_window, input_window,
          range_diff, range_kernel, combined_kernel, pixel_sum, writes, returned>>

args == <<low_res_solution, high_res_image, sigma_spatial, sigma_range, nan_cast>>
loop_locals == <<guide_window, input_window, range_diff, range_kernel,
                 combined_kernel, pixel_sum>>

Init ==
    /\ \E dtype \in Dtypes :
         /\ \E h \in 0..MaxCoarse, w \in 0..MaxCoarse, p \in CoarsePatterns :
              low_res_solution = InputGrid(dtype, h, w, p)
         /\ \E h \in 0..MaxGuide, w \in 0..MaxGuide, p \in GuidePatterns :
              high_res_image = InputGrid(dtype, h, w, p)
         /\ nan_cast \in (IF dtype = "uint8" THEN NanCastOutcomes ELSE {0})
    /\ \E sg \in SigmaPairs :
         /\ sigma_spatial = sg[1]
         /\ sigma_range = sg[2]
    /\ pc = "resize"
    /\ error = ""
    /\ upsampled = None
    /\ kernel_size = 0
    /\ spatial_kernel = None
    /\ pad_size = 0
    /\ padded_guide = None
    /\ padded_input = None
    /\ result = None
    /\ i = -1
    /\ j = -1
    /\ guide_window = None
    /\ input_window = None
    /\ range_diff = None
    /\ range_kernel = None
    /\ combined_kernel = None
    /\ pixel_sum = [k |-> "fin", v |-> 0]
    /\ writes = None
    /\ returned = None


\* ------------------------------------------------------------- float64
\* A float64 record: "fin" with v = floor(x * ONE), or "inf", or "nan".
Fin(v) == [k |-> "fin", v |-> v]
Inf == [k |-> "inf", v |-> 0]
NaN == [k |-> "nan", v |-> 0]

Min(a, b) == IF a < b THEN a ELSE b
Max(a, b) == IF a > b THEN a ELSE b
Abs(a) == IF a < 0 THEN -a ELSE a

\* F(0) + ... + F(n-1)
SumTo(n, F(_)) ==
    LET s[m \in 0..n] == IF m = 0 THEN 0 ELSE s[m - 1] + F(m - 1) IN s[n]

\* The sum of the cells of an integer array.
ArraySum(a) == SumTo(a.h * a.w, LAMBDA m : a.data[m \div a.w][m % a.w])

\* The cells of an array, as a set of values.
Cells(a) == {a.data[r][c] : r \in 0..(a.h - 1), c \in 0..(a.w - 1)}

\* np.exp of a non-positive argument -x, x in fixed point: 1 / (1 + x + x^2/2! + ...),
\* exactly 1 at 0 and 0 once the result is below the resolution 1/ONE (underflow).
RECURSIVE ExpTerms(_, _, _)
ExpTerms(x, t, n) ==
    IF t = 0 THEN 0 ELSE t + ExpTerms(x, (t * x) \div (ONE * n), n + 1)

\* The values of exp(-x) above the underflow, tabulated once.
ExpTable == [x \in 0..(7 * ONE) |-> (ONE * ONE) \div ExpTerms(x, ONE, 1)]

ExpNeg(x) ==
    IF x = 0 THEN ONE
    ELSE IF x >= 7 * ONE THEN 0
    ELSE ExpTable[x]

\* x * x / ONE for a fixed-point x, without forming x * x.
SquareFixed(x) ==
    LET hi == Abs(x) \div ONE
        lo == Abs(x) % ONE
    IN  hi * hi * ONE + 2 * hi * lo + (lo * lo) \div ONE

\* ------------------------------------------------------------- line 30
\* cv2.resize(src, (W, H), INTER_LINEAR): the sample of the output at (dy, dx) is
\* the bilinear blend of the four source samples around ((dy+.5)h/H-.5, (dx+.5)w/W-.5),
\* source indices clamped to the grid; a uint8 output is rounded to nearest.
ResizeCell(src, H, W, dy, dx) ==
    LET fy0 == (2 * dy + 1) * src.h - H
        fx0 == (2 * dx + 1) * src.w - W
        sy0 == fy0 \div (2 * H)
        sx0 == fx0 \div (2 * W)
        sy  == Max(0, Min(sy0, src.h - 1))
        sx  == Max(0, Min(sx0, src.w - 1))
        ay  == IF sy0 < 0 \/ sy0 >= src.h - 1 THEN 0 ELSE fy0 - sy0 * 2 * H
        ax  == IF sx0 < 0 \/ sx0 >= src.w - 1 THEN 0 ELSE fx0 - sx0 * 2 * W
        sy1 == Min(sy + 1, src.h - 1)
        sx1 == Min(sx + 1, src.w - 1)
        num == (2 * H - ay) * ((2 * W - ax) * src.data[sy][sx] + ax * src.data[sy][sx1])
               + ay * ((2 * W - ax) * src.data[sy1][sx] + ax * src.data[sy1][sx1])
        den == 4 * H * W
    IN  IF src.dtype = "uint8" THEN (num + den \div 2) \div den ELSE num \div den

cv2_resize(src, W, H) ==
    LET f(dy, dx) == ResizeCell(src, H, W, dy, dx) IN Array(src.dtype, H, W, f)

Raise(e) ==
    /\ pc' = "raised"
    /\ error' = e

\* Lines 27-31: the upsampling factor and the initial estimate.
Resize ==
    /\ pc = "resize"
    /\ IF low_res_solution.h = 0
       THEN \* line 27: shape[0] // 0
            /\ Raise("ZeroDivisionError")
            /\ UNCHANGED upsampled
       ELSE IF low_res_solution.w = 0 \/ high_res_image.h = 0 \/ high_res_image.w = 0
       THEN \* line 30: cv2.resize refuses an empty source or an empty dsize
            /\ Raise("cv2.error")
            /\ UNCHANGED upsampled
       ELSE /\ upsampled' = cv2_resize(low_res_solution, high_res_image.w, high_res_image.h)
            /\ pc' = "kernel"
            /\ UNCHANGED error
    /\ UNCHANGED <<args, kernel_size, spatial_kernel, pad_size, padded_guide,
                   padded_input, result, i, j, loop_locals, writes, returned>>

\* ------------------------------------------------------------- lines 34-44
\* int(x / 10): Python's int() truncates toward zero.
IntTrunc(x, d) == IF x >= 0 THEN x \div d ELSE -((-x) \div d)

\* A faulty variant of BitOr1: the "| 1" left out.
BitOr1Dropped(x) == x

\* x | 1 on a Python int (two's complement): the next odd number at or above x.
BitOr1(x) == IF x % 2 = 1 THEN x ELSE x + 1

\* Line 34: kernel_size = int(3 * sigma_spatial) | 1, sigma in tenths.
KernelSize(s10) == BitOr1(IntTrunc(3 * s10, 10))

\* Line 40: diff = (i - center) ** 2 + (j - center) ** 2
KernelDiff(r, c, center) == (r - center) * (r - center) + (c - center) * (c - center)

\* Line 41: np.exp(-diff / (2 * sigma_spatial ** 2)), sigma in tenths.
KernelWeight(r, c, center, s10) ==
    ExpNeg((KernelDiff(r, c, center) * 100 * ONE) \div (2 * s10 * s10))

\* A faulty variant of Normalize: line 44 left out.
NormalizeSkipped(a) == a

\* Line 44: spatial_kernel /= spatial_kernel.sum()
Normalize(a) ==
    LET s == ArraySum(a)
        f(r, c) == (a.data[r][c] * ONE) \div s
    IN  Array(a.dtype, a.h, a.w, f)

\* Lines 35-44.
SpatialKernel(size, s10) ==
    LET center == size \div 2
        f(r, c) == KernelWeight(r, c, center, s10)
    IN  Normalize(Array("float64", size, size, f))

BuildKernel ==
    /\ pc = "kernel"
    /\ kernel_size' = KernelSize(sigma_spatial)
    /\ IF kernel_size' < 0
       THEN \* line 35: np.zeros of a negative dimension
            /\ Raise("ValueError")
            /\ UNCHANGED spatial_kernel
       ELSE IF sigma_spatial = 0
       THEN \* line 41: -diff / 0.0 on Python floats
            /\ Raise("ZeroDivisionError")
            /\ UNCHANGED spatial_kernel
       ELSE /\ spatial_kernel' = SpatialKernel(kernel_size', sigma_spatial)
            /\ pc' = "pad"
            /\ UNCHANGED error
    /\ UNCHANGED <<args, upsampled, pad_size, padded_guide, padded_input, result,
                   i, j, loop_locals, writes, returned>>

\* ------------------------------------------------------------- lines 47-52
ToSeq(f, n) == [m \in 1..n |-> f[m - 1]]
FromSeq(s) == [m \in 0..(Len(s) - 1) |-> s[m + 1]]
Repeat(x, n) == [m \in 1..n |-> x]

\* One axis of np.pad(..., mode='edge'): p copies of the first element in front,
\* p copies of the last one behind.
PadAxis(s, p) == Repeat(s[1], p) \o s \o Repeat(s[Len(s)], p)

\* A faulty variant of np_pad_edge: mode='constant', the border filled with zeros.
np_pad_constant(a, p) ==
    LET f(r, c) == IF r - p \in 0..(a.h - 1) /\ c - p \in 0..(a.w - 1)
                   THEN a.data[r - p][c - p] ELSE 0
    IN  Array(a.dtype, a.h + 2 * p, a.w + 2 * p, f)

\* np.pad(a, ((p, p), (p, p)), mode='edge')
np_pad_edge(a, p) ==
    LET rows == PadAxis(ToSeq(a.data, a.h), p)
    IN  [dtype |-> a.dtype, h |-> a.h + 2 * p, w |-> a.w + 2 * p,
         data |-> FromSeq([m \in 1..Len(rows) |->
                              FromSeq(PadAxis(ToSeq(rows[m], a.w), p))])]

\* np.zeros_like(a): cells are float records so that a float64 result can hold nan.
zeros_like(a) == LET f(r, c) == Fin(0) IN Array(a.dtype, a.h, a.w, f)

Pad ==
    /\ pc = "pad"
    /\ result' = zeros_like(upsampled)
    /\ writes' = [r \in 0..(upsampled.h - 1) |-> [c \in 0..(upsampled.w - 1) |-> 0]]
    /\ pad_size' = kernel_size \div 2
    /\ padded_guide' = np_pad_edge(high_res_image, pad_size')
    /\ padded_input' = np_pad_edge(upsampled, pad_size')
    /\ pc' = "loop"
    /\ UNCHANGED <<args, error, upsampled, kernel_size, spatial_kernel, i, j,
                   loop_locals, returned>>

\* ------------------------------------------------------------- lines 57-69
\* A Python slice bound k on an axis of length n.
SliceBound(k, n) == IF k < 0 THEN Max(0, n + k) ELSE Min(k, n)

\* a[r0:r1, c0:c1]
Slice(a, r0, r1, c0, c1) ==
    LET rb == SliceBound(r0, a.h)
        cb == SliceBound(c0, a.w)
        f(r, c) == a.data[rb + r][cb + c]
    IN  Array(a.dtype, Max(0, SliceBound(r1, a.h) - rb),
              Max(0, SliceBound(c1, a.w) - cb), f)

\* Line 61, one cell: (x - center) ** 2 in the dtype of the guide. uint8 - uint8 and
\* uint8 ** 2 stay uint8 and wrap modulo 2^8; float64 does not.
RangeDiffCell(dtype, x, center) ==
    IF dtype = "uint8"
    THEN (((x - center) % 256) * ((x - center) % 256)) % 256
    ELSE SquareFixed(x - center)

RangeDiff(window, center) ==
    LET f(r, c) == RangeDiffCell(window.dtype, window.data[r][c], center)
    IN  Array(window.dtype, window.h, window.w, f)

\* Line 62: -range_diff keeps the dtype, so on uint8 it wraps to 256 - d (0 stays 0).
Negated(dtype, d) == IF dtype = "uint8" THEN (256 - d) % 256 ELSE -d

\* np.exp(-(a * m / d)) for a >= 0: 0 as soon as the argument passes the underflow.
ExpNegScaled(a, m, d) ==
    IF a >= (7 * ONE * d) \div m + 1 THEN 0 ELSE ExpNeg((a * m) \div d)

\* Whether exp(n / (2 * sigma_range ** 2)) overflows float64 (argument above 709.78),
\* sigma_range in hundredths: n * 10^4 / (2 * r100^2) > 709.78.
ExpOverflows(n, r100) == n * 1000000 > 141956 * r100 * r100

\* Line 62 on a uint8 guide: the arguments n / (2 sigma^2) are >= 0. The finite cells
\* share one exponent: cell v stands for (v / ONE) * exp(block / (2 sigma^2)).
RangeKernelUint8(rd, r100) ==
    LET n(r, c) == Negated("uint8", rd.data[r][c])
        finite == {n(r, c) : r \in 0..(rd.h - 1), c \in 0..(rd.w - 1)}
        block == IF r100 = 0 THEN 0
                 ELSE CHOOSE b \in finite \cup {0} :
                        /\ ~ExpOverflows(b, r100)
                        /\ \A x \in finite : ExpOverflows(x, r100) \/ x <= b
        f(r, c) == IF r100 = 0
                   THEN (IF n(r, c) = 0 THEN NaN ELSE Inf)
                   ELSE IF ExpOverflows(n(r, c), r100) THEN Inf
                   ELSE Fin(ExpNegScaled(block - n(r, c), 5000 * ONE, r100 * r100))
    IN  [dtype |-> "float64", h |-> rd.h, w |-> rd.w, block |-> block,
         data |-> [r \in 0..(rd.h - 1) |-> [c \in 0..(rd.w - 1) |-> f(r, c)]]]

\* Line 62 on a float64 guide: the arguments -d / (2 sigma^2) are <= 0.
RangeKernelFloat(rd, r100) ==
    LET f(r, c) == IF r100 = 0
                   THEN (IF rd.data[r][c] = 0 THEN NaN ELSE Fin(0))
                   ELSE Fin(ExpNegScaled(rd.data[r][c], 5000, r100 * r100))
    IN  [dtype |-> "float64", h |-> rd.h, w |-> rd.w, block |-> 0,
         data |-> [r \in 0..(rd.h - 1) |-> [c \in 0..(rd.w - 1) |-> f(r, c)]]]

\* Line 62: range_kernel = np.exp(-range_diff / (2 * sigma_range ** 2))
RangeKernel(rd, r100) ==
    IF rd.dtype = "uint8" THEN RangeKernelUint8(rd, r100) ELSE RangeKernelFloat(rd, r100)

\* Line 65, one cell: a spatial weight (finite, positive) times a range weight.
Times(s, x) == IF x.k = "fin" THEN Fin((s * x.v) \div ONE) ELSE x

\* .sum() of an array of float records.
FloatSum(a) ==
    IF \E x \in Cells(a) : x.k = "nan" THEN NaN
    ELSE IF \E x \in Cells(a) : x.k = "inf" THEN Inf
    ELSE Fin(SumTo(a.h * a.w, LAMBDA m : a.data[m \div a.w][m % a.w].v))

\* Line 66, one cell: x / (s + 1e-10). On finite values the quotient is strictly
\* below x / s, so its fixed-point form is the floor of a value just under x*ONE/s.
DivEps(x, s) ==
    IF x.k = "nan" \/ s.k = "nan" THEN NaN
    ELSE IF s.k = "inf" THEN (IF x.k = "inf" THEN NaN ELSE Fin(0))
    ELSE IF x.v = 0 THEN Fin(0)
    ELSE Fin((x.v * ONE - 1) \div s.v)

\* Lines 65-66.
CombinedKernel(spatial, range) ==
    LET prod == LET f(r, c) == Times(spatial.data[r][c], range.data[r][c])
                IN  Array("float64", range.h, range.w, f)
        s == FloatSum(prod)
        g(r, c) == DivEps(prod.data[r][c], s)
    IN  Array("float64", range.h, range.w, g)

\* Line 69, right-hand side: (input_window * combined_kernel).sum()
WeightedSum(window, kernel) ==
    IF \E x \in Cells(kernel) : x.k # "fin" THEN NaN
    ELSE LET total == SumTo(kernel.h * kernel.w,
                            LAMBDA m : window.data[m \div kernel.w][m % kernel.w]
                                       * kernel.data[m \div kernel.w][m % kernel.w].v)
         IN  IF window.dtype = "uint8" THEN Fin(total) ELSE Fin(total \div ONE)

\* Line 69, the store: result has the dtype of upsampled, so a uint8 result keeps the
\* integer part only, and the cast of nan is whatever the build makes of it.
Store(dtype, x, nc) ==
    IF dtype = "uint8"
    THEN (IF x.k = "fin" THEN Fin((x.v \div ONE) % 256) ELSE Fin(nc))
    ELSE x

\* Lines 57-69 for the pixel at (ii, jj) of the padded buffers, on the locals st.
CompositeFn(st, ii, jj) ==
    LET p  == st.pad_size
        gw == Slice(st.padded_guide, ii - p, ii + p + 1, jj - p, jj + p + 1)
        iw == Slice(st.padded_input, ii - p, ii + p + 1, jj - p, jj + p + 1)
        rd == RangeDiff(gw, st.padded_guide.data[ii][jj])
        rk == RangeKernel(rd, st.sigma_range)
        ck == CombinedKernel(st.spatial_kernel, rk)
        ps == WeightedSum(iw, ck)
    IN  [st EXCEPT !.guide_window = gw, !.input_window = iw, !.range_diff = rd,
                   !.range_kernel = rk, !.combined_kernel = ck, !.pixel_sum = ps,
                   !.result.data[ii - p][jj - p] = Store(st.result.dtype, ps, st.nan_cast)]

\* The locals the loop body reads and writes.
Locals ==
    [pad_size |-> pad_size, padded_guide |-> padded_guide, padded_input |-> padded_input,
     spatial_kernel |-> spatial_kernel, sigma_range |-> sigma_range,
     nan_cast |-> nan_cast, result |-> result, guide_window |-> guide_window,
     input_window |-> input_window, range_diff |-> range_diff,
     range_kernel |-> range_kernel, combined_kernel |-> combined_kernel,
     pixel_sum |-> pixel_sum]

\* A faulty variant of Composite: the filter run in place, each output value also written
\* back into the padded initial estimate that later pixels read.
CompositeInPlace(ii, jj) ==
    LET st == CompositeFn(Locals, ii, jj)
    IN  /\ padded_guide' = st.padded_guide
        /\ padded_input' = [st.padded_input EXCEPT !.data[ii][jj] =
                                st.result.data[ii - pad_size][jj - pad_size].v]
        /\ spatial_kernel' = st.spatial_kernel
        /\ result' = st.result
        /\ guide_window' = st.guide_window
        /\ input_window' = st.input_window
        /\ range_diff' = st.range_diff
        /\ range_kernel' = st.range_kernel
        /\ combined_kernel' = st.combined_kernel
        /\ pixel_sum' = st.pixel_sum
        /\ writes' = [writes EXCEPT ![ii - pad_size][jj - pad_size] = @ + 1]
        /\ UNCHANGED <<args, error, upsampled, kernel_size, pad_size, returned>>

\* One pass of the loop body, for the pixel at (ii, jj).
Composite(ii, jj) ==
    LET st == CompositeFn(Locals, ii, jj)
    IN  /\ padded_guide' = st.padded_guide
        /\ padded_input' = st.padded_input
        /\ spatial_kernel' = st.spatial_kernel
        /\ result' = st.result
        /\ guide_window' = st.guide_window
        /\ input_window' = st.input_window
        /\ range_diff' = st.range_diff
        /\ range_kernel' = st.range_kernel
        /\ combined_kernel' = st.combined_kernel
        /\ pixel_sum' = st.pixel_sum
        /\ writes' = [writes EXCEPT ![ii - pad_size][jj - pad_size] = @ + 1]
        /\ UNCHANGED <<args, error, upsampled, kernel_size, pad_size, returned>>

\* Lines 54-55: range(pad_size, shape - pad_size) on both axes, row-major.
FirstIndex == pad_size
LastRow == padded_guide.h - pad_size - 1
\* A faulty variant of LastCol: the column range one short.
LastColShort == padded_guide.w - pad_size - 2

LastCol == padded_guide.w - pad_size - 1

\* One iteration: the for statements bind the next (i, j), then the body runs.
LoopStep ==
    /\ pc = "loop"
    /\ LET ni == IF i = -1 THEN FirstIndex ELSE IF j < LastCol THEN i ELSE i + 1
           nj == IF i = -1 THEN FirstIndex ELSE IF j < LastCol THEN j + 1 ELSE FirstIndex
       IN  /\ Composite(ni, nj)
           /\ i' = ni
           /\ j' = nj
           /\ pc' = IF ni >= LastRow /\ nj >= LastCol THEN "return" ELSE "loop"

\* The loop body run for the pixels in an arbitrary order (a parallel dispatch of
\* the compositing stage): any pixel not yet written may be the next one.
AnyOrderStep ==
    /\ pc = "loop"
    /\ \E ni \in FirstIndex..LastRow, nj \in FirstIndex..LastCol :
          /\ writes[ni - pad_size][nj - pad_size] = 0
          /\ Composite(ni, nj)
          /\ i' = ni
          /\ j' = nj
          /\ pc' = IF \A r \in 0..(result.h - 1), c \in 0..(result.w - 1) :
                        writes'[r][c] > 0
                   THEN "return" ELSE "loop"

\* Line 71.
Return ==
    /\ pc = "return"
    /\ returned' = result
    /\ pc' = "done"
    /\ UNCHANGED <<args, error, upsampled, kernel_size, spatial_kernel, pad_size,
                   padded_guide, padded_input, result, i, j, loop_locals, writes>>

Next == Resize \/ BuildKernel \/ Pad \/ LoopStep \/ Return

Spec == Init /\ [][Next]_vars

\* Largest guide width under the any-order dispatch (the guide has 1 or 2 rows).
MaxAnyOrder == 2

InitAnyOrder ==
    /\ Init
    /\ low_res_solution.h = 1
    /\ low_res_solution.w \in 1..2
    /\ high_res_image.h \in 1..2
    /\ high_res_image.w \in 1..MaxAnyOrder
    /\ high_res_image.w % low_res_solution.w = 0
    /\ high_res_image.data \in {InputGrid(high_res_image.dtype, high_res_image.h,
                                           high_res_image.w, p).data : p \in {"ramp", "edge"}}
    /\ sigma_spatial = 7
    /\ sigma_range \in {10, 100}

NextAnyOrder == Resize \/ BuildKernel \/ Pad \/ AnyOrderStep \/ Return

SpecAnyOrder == InitAnyOrder /\ [][NextAnyOrder]_vars
\* ------------------------------------------------------------- claims
\* Both grids non-empty, the guide an integer multiple of the coarse grid.
ValidPair ==
    /\ low_res_solution.h >= 1
    /\ low_res_solution.w >= 1
    /\ high_res_image.h >= 1
    /\ high_res_image.w >= 1
    /\ high_res_image.h % low_res_solution.h = 0
    /\ high_res_image.w % low_res_solution.w = 0

PositiveSigmas == sigma_spatial > 0 /\ sigma_range > 0

\* The loop body has run at least once: the loop locals hold a pixel's values.
BodyRan == pc \in {"loop", "return", "done"} /\ i >= 0

AfterKernel == pc \in {"pad", "loop", "return", "done"}
AfterPad == pc \in {"loop", "return", "done"}

OutputCells == {<<r, c>> : r \in 0..(result.h - 1), c \in 0..(result.w - 1)}

\* C1: for a valid coarse/guide pair and positive sigmas the call does not fail, the
\* grid it returns has exactly the guide's height and width, no cell is written
\* twice while the loop runs, and once the loop is over every cell has been written
\* exactly once.
C1_ShapePreserved ==
    (ValidPair /\ PositiveSigmas) =>
        /\ pc # "raised"
        /\ AfterPad =>
             /\ result.h = high_res_image.h
             /\ result.w = high_res_image.w
             /\ DOMAIN result.data = 0..(high_res_image.h - 1)
             /\ \A rc \in OutputCells :
                  /\ DOMAIN result.data[rc[1]] = 0..(high_res_image.w - 1)
                  /\ writes[rc[1]][rc[2]] <= 1
        /\ pc \in {"return", "done"} =>
             \A rc \in OutputCells : writes[rc[1]][rc[2]] = 1
        /\ pc = "done" => returned = result

C1_Witness ==
    /\ pc = "done"
    /\ ValidPair
    /\ PositiveSigmas
    /\ low_res_solution.h = 1
    /\ returned.h = 2
    /\ returned.w = 2
    /\ kernel_size = 5

\* ceil(3 * sigma_spatial), sigma in tenths.
CeilRadius == (3 * sigma_spatial + 9) \div 10

\* C2 as stated: for sigma_spatial > 0 the kernel has radius ceil(3*sigma_spatial) and
\* side 2*radius+1, and the compositor pads by that radius.
C2_CeilRadius ==
    (sigma_spatial > 0 /\ AfterKernel) =>
        /\ kernel_size = 2 * CeilRadius + 1
        /\ spatial_kernel.h = 2 * CeilRadius + 1
        /\ AfterPad => pad_size = CeilRadius

\* C2 amended: for sigma_spatial > 0 the side of the kernel is the smallest odd
\* integer at or above floor(3*sigma_spatial) (int(3*sigma) | 1); the kernel is a
\* square of that side, side = 2*radius+1 with radius = side // 2 the index of its
\* center cell, and the compositor pads both buffers by that same radius.
C2_OddSizeFloorRadius ==
    (sigma_spatial > 0 /\ AfterKernel) =>
        LET fl == (3 * sigma_spatial) \div 10
            radius == kernel_size \div 2
        IN  /\ kernel_size % 2 = 1
            /\ fl <= kernel_size
            /\ kernel_size <= fl + 1
            /\ kernel_size = 2 * radius + 1
            /\ spatial_kernel.h = kernel_size
            /\ spatial_kernel.w = kernel_size
            /\ \A r \in 0..(kernel_size - 1), c \in 0..(kernel_size - 1) :
                 spatial_kernel.data[r][c] <= spatial_kernel.data[radius][radius]
            /\ AfterPad =>
                 /\ pad_size = radius
                 /\ padded_guide.h = high_res_image.h + 2 * radius
                 /\ padded_guide.w = high_res_image.w + 2 * radius
                 /\ padded_input.h = upsampled.h + 2 * radius
                 /\ padded_input.w = upsampled.w + 2 * radius

C2_Witness ==
    /\ AfterPad
    /\ sigma_spatial = 7
    /\ kernel_size = 3
    /\ pad_size = 1

\* C3: for sigma_spatial > 0 every entry of the normalized spatial kernel is
\* non-negative, the entries sum to 1 within the rounding of the arithmetic (less
\* than one unit in the last place per entry), and the weight at offset (di, dj)
\* equals the weights at (dj, di) and at (-di, -dj).
C3_KernelNormalizedSymmetric ==
    (sigma_spatial > 0 /\ AfterKernel) =>
        LET n == spatial_kernel.h
            total == ArraySum(spatial_kernel)
        IN  /\ \A r \in 0..(n - 1), c \in 0..(n - 1) :
                 /\ spatial_kernel.data[r][c] >= 0
                 /\ spatial_kernel.data[r][c] = spatial_kernel.data[c][r]
                 /\ spatial_kernel.data[r][c] = spatial_kernel.data[n - 1 - r][n - 1 - c]
            /\ total <= ONE
            /\ ONE - total < n * n

C3_Witness ==
    /\ AfterKernel
    /\ sigma_spatial = 17
    /\ spatial_kernel.h = 5
    /\ spatial_kernel.data[0][1] < spatial_kernel.data[1][1]

\* C4 as stated: at every output pixel the normalized combined weights are finite,
\* non-negative and sum to 1 within the rounding of the arithmetic.
C4_CombinedWeightsNormalized ==
    (ValidPair /\ PositiveSigmas /\ BodyRan) =>
        /\ \A x \in Cells(combined_kernel) : x.k = "fin" /\ x.v >= 0
        /\ FloatSum(combined_kernel).v <= ONE
        /\ ONE - FloatSum(combined_kernel).v <= kernel_size * kernel_size + 1

Clamp(x, lo, hi) == Max(lo, Min(x, hi))

\* C5: at every output pixel the two windows have the spatial kernel's size, their
\* center is the pixel itself, the sample at offset (di, dj) is the sample of the
\* unpadded grid at the clamped position, and the slices stay inside the padded
\* buffers.
C5_EdgeReplicatedWindows ==
    (ValidPair /\ PositiveSigmas /\ BodyRan) =>
        LET p == pad_size
            y == i - p
            x == j - p
            H == high_res_image.h
            W == high_res_image.w
        IN  /\ guide_window.h = spatial_kernel.h
            /\ guide_window.w = spatial_kernel.w
            /\ input_window.h = spatial_kernel.h
            /\ input_window.w = spatial_kernel.w
            /\ y \in 0..(H - 1)
            /\ x \in 0..(W - 1)
            /\ i - p >= 0
            /\ j - p >= 0
            /\ i + p + 1 <= padded_guide.h
            /\ j + p + 1 <= padded_guide.w
            /\ i + p + 1 <= padded_input.h
            /\ j + p + 1 <= padded_input.w
            /\ guide_window.data[p][p] = high_res_image.data[y][x]
            /\ input_window.data[p][p] = upsampled.data[y][x]
            /\ \A di \in (-p)..p, dj \in (-p)..p :
                 /\ guide_window.data[di + p][dj + p]
                      = high_res_image.data[Clamp(y + di, 0, H - 1)][Clamp(x + dj, 0, W - 1)]
                 /\ input_window.data[di + p][dj + p]
                      = upsampled.data[Clamp(y + di, 0, H - 1)][Clamp(x + dj, 0, W - 1)]

C5_Witness ==
    /\ BodyRan
    /\ ValidPair
    /\ PositiveSigmas
    /\ pad_size = 2
    /\ high_res_image.h = 2
    /\ high_res_image.w = 2
    /\ i = pad_size + 1
    /\ j = pad_size
    /\ guide_window.data[0][0] # guide_window.data[4][4]

\* C6 as stated (on a valid coarse/guide pair): with sigma_spatial <= 0 or
\* sigma_range <= 0 the call fails with InvalidParameter and hands no grid to the
\* caller.
C6_NonPositiveSigmaRejected ==
    (ValidPair /\ (sigma_spatial <= 0 \/ sigma_range <= 0)) =>
        /\ pc # "done"
        /\ returned = None
        /\ pc = "raised" => error = "InvalidParameter"

\* C7 as stated (with positive sigmas): with a guide smaller than the coarse grid
\* in either dimension, or a zero dimension, the call fails with InvalidDimensions:
\* nothing is resampled and no grid is handed to the caller.
C7_InvertedDimensionsRejected ==
    ( /\ PositiveSigmas
      /\ \/ high_res_image.h < low_res_solution.h
         \/ high_res_image.w < low_res_solution.w
         \/ high_res_image.h = 0
         \/ high_res_image.w = 0 ) =>
        /\ upsampled = None
        /\ pc # "done"
        /\ returned = None
        /\ pc = "raised" => error = "InvalidDimensions"

\* The squared difference of two samples as a real number, in the samples' units.
TrueSquare(dtype, x, center) ==
    IF dtype = "uint8" THEN (x - center) * (x - center) ELSE SquareFixed(x - center)

\* The value a cell of result stands for, as a float record in fixed point.
StoredValue(cell) ==
    IF result.dtype = "uint8" /\ cell.k = "fin" THEN Fin(cell.v * ONE) ELSE cell

\* C8 as stated (on a valid pair, with positive sigmas): at every output pixel the
\* squared difference the range kernel uses is the true
\* (guide_window[offset] - guide[i,j])^2, and the cell stored is the unrounded
\* weighted sum.
C8_NoWrapNoQuantization ==
    (ValidPair /\ PositiveSigmas /\ BodyRan) =>
        /\ \A r \in 0..(range_diff.h - 1), c \in 0..(range_diff.w - 1) :
             range_diff.data[r][c]
               = TrueSquare(guide_window.dtype, guide_window.data[r][c],
                            padded_guide.data[i][j])
        /\ StoredValue(result.data[i - pad_size][j - pad_size]) = pixel_sum

\* The result of the sequential row-major loop of lines 54-69 on the current buffers.
RowMajorResult ==
    LET n == upsampled.h * upsampled.w
        st[m \in 0..n] ==
            IF m = 0 THEN [Locals EXCEPT !.result = zeros_like(upsampled)]
            ELSE CompositeFn(st[m - 1], pad_size + (m - 1) \div upsampled.w,
                             pad_size + ((m - 1) % upsampled.w))
    IN  st[n].result

\* C9: no step changes the caller's grids; a compositing step changes neither the
\* initial estimate, nor the padded buffers, nor the spatial kernel, and writes only
\* its own cell of the output, which no step has written before; and whatever the
\* order the pixels are processed in, the output grid is the one the sequential
\* row-major loop produces.
C9_OrderIndependent ==
    [][ /\ low_res_solution' = low_res_solution
        /\ high_res_image' = high_res_image
        /\ pc = "loop" =>
             /\ upsampled' = upsampled
             /\ padded_guide' = padded_guide
             /\ padded_input' = padded_input
             /\ spatial_kernel' = spatial_kernel
             /\ writes[i' - pad_size][j' - pad_size] = 0
             /\ \A rc \in OutputCells :
                  rc # <<i' - pad_size, j' - pad_size>> =>
                      /\ result'.data[rc[1]][rc[2]] = result.data[rc[1]][rc[2]]
                      /\ writes'[rc[1]][rc[2]] = writes[rc[1]][rc[2]]
        /\ pc = "return" => /\ result = RowMajorResult
                            /\ returned' = result
      ]_vars

\* The last pixel processed is not the last one of the row-major order, in a window
\* that overlaps its neighbours, on a guide with an edge.
C9_Witness ==
    /\ pc = "done"
    /\ high_res_image.h = 2
    /\ high_res_image.w = 2
    /\ kernel_size = 3
    /\ i = pad_size
    /\ j = pad_size
    /\ high_res_image.data[0][0] # high_res_image.data[0][1]

GuideConstant ==
    /\ high_res_image.h >= 1
    /\ high_res_image.w >= 1
    /\ \A x \in Cells(high_res_image) : x = high_res_image.data[0][0]

\* A range kernel that is 1 at every offset of the window.
UniformRange ==
    Array("float64", spatial_kernel.h, spatial_kernel.w, LAMBDA r, c : Fin(ONE))

\* The spatial kernel alone as the combined weights (up to the epsilon of line 66).
SpatialWeights == CombinedKernel(spatial_kernel, UniformRange)

\* C10 as stated: on a constant guide, for sigma_range > 0, the range kernel is 1
\* at every offset, the combined weights are the spatial kernel (up to the epsilon)
\* and the stored output is the spatial-kernel-weighted average of the padded
\* initial estimate.
C10_UniformGuideIsSpatialBlur ==
    (GuideConstant /\ ValidPair /\ PositiveSigmas /\ BodyRan) =>
        /\ \A x \in Cells(range_kernel) : x = Fin(ONE)
        /\ combined_kernel = SpatialWeights
        /\ StoredValue(result.data[i - pad_size][j - pad_size])
             = WeightedSum(input_window, SpatialWeights)
====
